---- MODULE Spec2Model ----
(***************************************************************************)
(* A model of scripts/T5_train.py: one process of a (possibly multi-host)  *)
(* run executing main() step by step, together with the file system it     *)
(* writes its run artifacts to and the evaluator closure that train_loop   *)
(* calls back.                                                             *)
(*                                                                         *)
(* Python values are represented as follows.  A str is a TLA+ string; the  *)
(* value None is the string "None", which no str argument of the model     *)
(* equals.  A 32-bit unsigned word is a pair <<hi, lo>> of 16-bit halves,  *)
(* and a PRNG key is a pair of words, as jax.random.PRNGKey produces.      *)
(***************************************************************************)
EXTENDS Integers, Sequences, FiniteSets, TLC

(***************************************************************************)
(* Bounds of the model.                                                    *)
(***************************************************************************)
MaxShape == 2
MaxDevices == 2
MaxProcs == 2
MaxEvals == 2

None == "None"

(***************************************************************************)
(* Strings and paths.                                                      *)
(***************************************************************************)
StartsWith(s, prefix) ==
    /\ Len(s) >= Len(prefix)
    /\ SubSeq(s, 1, Len(prefix)) = prefix

EndsWith(s, suffix) ==
    /\ Len(s) >= Len(suffix)
    /\ SubSeq(s, Len(s) - Len(suffix) + 1, Len(s)) = suffix

\* 'shard_%d' % (jax.process_index())
ShardName(i) == "shard_" \o ToString(i)

\* posixpath.join(a, b): an absolute b discards a; otherwise the two are
\* concatenated, with a separator unless a is empty or already ends in one.
\* A None component raises TypeError.
PathJoin2(a, b) ==
    IF a = None \/ b = None THEN [raised |-> "TypeError", value |-> None]
    ELSE IF StartsWith(b, "/") THEN [raised |-> "none", value |-> b]
    ELSE IF a = "" \/ EndsWith(a, "/") THEN [raised |-> "none", value |-> a \o b]
    ELSE [raised |-> "none", value |-> a \o "/" \o b]

PathJoin3(a, b, c) ==
    LET ab == PathJoin2(a, b)
    IN  IF ab.raised # "none" THEN ab ELSE PathJoin2(ab.value, c)

\* utils.path.convert_path: resolves a path; the location it names and its
\* scheme (local or gcs://) are those of its argument.
ConvertPath(p) == p

(***************************************************************************)
(* jax.random: PRNGKey and split over Threefry-2x32 (20 rounds).           *)
(***************************************************************************)
Half == 65536

RECURSIVE Xor16(_, _)
Xor16(a, b) ==
    IF a = 0 THEN b
    ELSE IF b = 0 THEN a
    ELSE (((a % 2) + (b % 2)) % 2) + 2 * Xor16(a \div 2, b \div 2)

WXor(x, y) == <<Xor16(x[1], y[1]), Xor16(x[2], y[2])>>

\* addition modulo 2^32
WAdd(x, y) ==
    LET lo == x[2] + y[2]
        hi == x[1] + y[1] + (lo \div Half)
    IN  <<hi % Half, lo % Half>>

\* rotate left by r, 0 < r < 32
WRotl(x, r) ==
    LET s == IF r >= 16 THEN <<x[2], x[1]>> ELSE x
        k == r % 16
    IN  IF k = 0 THEN s
        ELSE <<((s[1] * 2^k) % Half) + (s[2] \div 2^(16 - k)),
               ((s[2] * 2^k) % Half) + (s[1] \div 2^(16 - k))>>

WordOf(n) == <<n \div Half, n % Half>>

Rotations == << <<13, 15, 26, 6>>, <<17, 29, 16, 24>> >>

\* 0x1BD11BDA
ThreefryParity == <<7121, 7130>>

ApplyRound(v, r) ==
    LET x0 == WAdd(v[1], v[2])
    IN  <<x0, WXor(x0, WRotl(v[2], r))>>

\* The four rounds of one group, then the key injection that follows it.
\* Each intermediate value is bound by a quantifier over a singleton set so
\* that it is computed before the next round starts.
RECURSIVE ApplyRounds(_, _, _)
ApplyRounds(v, rs, i) ==
    IF i > Len(rs) THEN v
    ELSE CHOOSE res \in {ApplyRounds(nv, rs, i + 1) : nv \in {ApplyRound(v, rs[i])}} : TRUE

InjectKey(ks, w, i) ==
    <<WAdd(w[1], ks[(i % 3) + 1]),
      WAdd(WAdd(w[2], ks[((i + 1) % 3) + 1]), WordOf(i))>>

RECURSIVE ThreefryGroups(_, _, _)
ThreefryGroups(ks, v, i) ==
    IF i > 5 THEN v
    ELSE CHOOSE res \in
            {ThreefryGroups(ks, nv, i + 1) :
                nv \in {InjectKey(ks, ApplyRounds(v, Rotations[((i - 1) % 2) + 1], 1), i)}} : TRUE

\* one Threefry-2x32 block: key k = <<k0, k1>>, counter pair x = <<x0, x1>>
Threefry2x32(k, x) ==
    LET ks == <<k[1], k[2], WXor(WXor(k[1], k[2]), ThreefryParity)>>
    IN  CHOOSE res \in
            {ThreefryGroups(kv, xv, 1) :
                kv \in {ks}, xv \in {<<WAdd(x[1], ks[1]), WAdd(x[2], ks[2])>>}} : TRUE

\* jax.random.PRNGKey(seed) for a seed below 2^16
PRNGKey(seed) == <<WordOf(0), WordOf(seed)>>

\* jax.random.split(key): the counters 0..3 are hashed as the blocks (0, 2)
\* and (1, 3); the two new keys are the rows of the 2 x 2 reshaped output.
Split(key) ==
    LET a == Threefry2x32(key, <<WordOf(0), WordOf(2)>>)
        b == Threefry2x32(key, <<WordOf(1), WordOf(3)>>)
    IN  << <<a[1], b[1]>>, <<a[2], b[2]>> >>

(***************************************************************************)
(* The arguments of main and the environment the process runs in.          *)
(***************************************************************************)
ExpNames == {None, "exp"}
OutputRoots == {None, "outputs/T5_train", "gcs://bucket/outputs"}
CheckpointPaths == {None, "ckpts/t5"}
ShapeSizes == (-1)..MaxShape

InputArgs ==
    [exp_name : ExpNames,
     outputs_path : OutputRoots,
     checkpoint_path : CheckpointPaths,
     checkpoint_is_sharded : BOOLEAN,
     do_pjit : BOOLEAN,
     model_p_shape : ShapeSizes,
     data_p_shape : ShapeSizes]

\* jax.process_index(), jax.process_count() and jax.devices() of this process
Environments ==
    {[process_index |-> i, process_count |-> c, devices |-> [k \in 1..n |-> k - 1]] :
        <<i, c, n>> \in {t \in (0..(MaxProcs - 1)) \X (1..MaxProcs) \X (1..MaxDevices) :
                            t[1] < t[2]}}

VARIABLES
    input_args,        \* locals() at entry to main
    env,               \* what jax reports about this process
    dirs,              \* local directories that exist
    files,             \* path -> content, local files and gcs objects
    created,           \* directories created by this run of main
    written,           \* paths written by this run of main
    pc,                \* position of main
    error,             \* the exception that ended main, or "none"
    loader,            \* the call to load_t5_model
    params,
    mesh,
    param_spec,
    optim_state,
    optim_state_spec,
    trainer,           \* the call to load_enc_dec_trainer
    inference,         \* the call to load_enc_dec_inference
    save_dir,
    train_loop,        \* the call to train_loop
    evals              \* the seeds each evaluator invocation handed out

inputs == <<input_args, env>>
fs == <<dirs, files, created, written>>
sharding == <<params, mesh, param_spec, optim_state, optim_state_spec>>
factories == <<trainer, inference>>
vars == <<input_args, env, dirs, files, created, written, pc, error, loader,
          params, mesh, param_spec, optim_state, optim_state_spec, trainer,
          inference, save_dir, train_loop, evals>>

(***************************************************************************)
(* Expressions of main.                                                    *)
(***************************************************************************)
Ok(v) == [raised |-> "none", value |-> v]

\* variant: the shard name does not depend on the process
CheckpointArg_NoIndex(checkpoint_path, checkpoint_is_sharded, process_index) ==
    IF checkpoint_is_sharded
    THEN PathJoin2(checkpoint_path, ShardName(0))
    ELSE Ok(checkpoint_path)

\* checkpoint_path argument of load_t5_model
CheckpointArg(checkpoint_path, checkpoint_is_sharded, process_index) ==
    IF checkpoint_is_sharded
    THEN PathJoin2(checkpoint_path, ShardName(process_index))
    ELSE Ok(checkpoint_path)

\* variant: every row is filled from the start of the array
Reshape_SameRow(a, d, m) ==
    LET n == Len(a)
        shape ==
            IF d < 0 /\ m < 0 THEN <<>>
            ELSE IF d < 0 THEN (IF m > 0 /\ n % m = 0 THEN <<n \div m, m>> ELSE <<>>)
            ELSE IF m < 0 THEN (IF d > 0 /\ n % d = 0 THEN <<d, n \div d>> ELSE <<>>)
            ELSE IF d * m = n THEN <<d, m>> ELSE <<>>
    IN  IF shape = <<>>
        THEN [raised |-> "ValueError", value |-> <<>>]
        ELSE Ok([i \in 1..shape[1] |-> [j \in 1..shape[2] |-> a[j]]])

\* numpy.ndarray.reshape(d, m) of a one-dimensional array: one dimension may
\* be given as -1 and is then inferred from the other.
Reshape(a, d, m) ==
    LET n == Len(a)
        shape ==
            IF d < 0 /\ m < 0 THEN <<>>
            ELSE IF d < 0 THEN (IF m > 0 /\ n % m = 0 THEN <<n \div m, m>> ELSE <<>>)
            ELSE IF m < 0 THEN (IF d > 0 /\ n % d = 0 THEN <<d, n \div d>> ELSE <<>>)
            ELSE IF d * m = n THEN <<d, m>> ELSE <<>>
    IN  IF shape = <<>>
        THEN [raised |-> "ValueError", value |-> <<>>]
        ELSE Ok([i \in 1..shape[1] |-> [j \in 1..shape[2] |-> a[(i - 1) * shape[2] + j]]])

NoMesh == [kind |-> "unset", devices |-> <<>>]
NullContext == [kind |-> "nullcontext", devices |-> <<>>]

\* variant: the device list is reshaped whether or not do_pjit is set
MeshOf_Always(do_pjit, devices, data_p_shape, model_p_shape) ==
    LET mesh_devices == Reshape(devices, data_p_shape, model_p_shape)
    IN  IF mesh_devices.raised # "none"
        THEN [raised |-> mesh_devices.raised, value |-> NoMesh]
        ELSE IF do_pjit THEN Ok([kind |-> "Mesh", devices |-> mesh_devices.value])
        ELSE Ok(NullContext)

\* the mesh definition
MeshOf(do_pjit, devices, data_p_shape, model_p_shape) ==
    IF do_pjit
    THEN LET mesh_devices == Reshape(devices, data_p_shape, model_p_shape)
         IN  IF mesh_devices.raised # "none"
             THEN [raised |-> mesh_devices.raised, value |-> NoMesh]
             ELSE Ok([kind |-> "Mesh", devices |-> mesh_devices.value])
    ELSE Ok(NullContext)

\* shard params and optimizer
ShardResult(do_pjit, p) ==
    IF do_pjit
    THEN [params |-> "sharded params",
          param_spec |-> "param_spec",
          optim_state |-> [kind |-> "sharded", params |-> "sharded params"],
          optim_state_spec |-> "optim_state_spec"]
    ELSE [params |-> p,
          param_spec |-> None,
          optim_state |-> [kind |-> "optim.init", params |-> p],
          optim_state_spec |-> None]

NotCalled ==
    [called |-> FALSE, params |-> "unset", param_spec |-> "unset",
     optim_state |-> [kind |-> "unset", params |-> "unset"],
     optim_state_spec |-> "unset", do_pjit |-> FALSE]

TrainerArgs(p, pspec, ostate, ospec, do_pjit) ==
    [called |-> TRUE, params |-> p, param_spec |-> pspec,
     optim_state |-> ostate, optim_state_spec |-> ospec, do_pjit |-> do_pjit]

\* variant: the inference factory is not given the partition spec
InferenceArgs_NoSpec(p, pspec, do_pjit) ==
    [called |-> TRUE, params |-> p, param_spec |-> None,
     optim_state |-> [kind |-> "unset", params |-> "unset"],
     optim_state_spec |-> "unset", do_pjit |-> do_pjit]

InferenceArgs(p, pspec, do_pjit) ==
    [called |-> TRUE, params |-> p, param_spec |-> pspec,
     optim_state |-> [kind |-> "unset", params |-> "unset"],
     optim_state_spec |-> "unset", do_pjit |-> do_pjit]

\* variant: generate_language is given the key eval_loss was given
EvaluatorRngs_Reuse(rng) ==
    LET first == Split(rng)
    IN  [base |-> rng, loss |-> first[2], generation |-> first[2]]

\* the three keys of one evaluator invocation that starts from the key rng
EvaluatorRngs(rng) ==
    LET first == Split(rng)
        second == Split(first[1])
    IN  [base |-> rng, loss |-> first[2], generation |-> second[2]]

\* rng = jax.random.PRNGKey(0) and the keys split from it: the same values
\* at every invocation of the closure
EvaluatorKeys == EvaluatorRngs(PRNGKey(0))

SaveDirOf(exp_name, outputs_path, process_index) ==
    IF exp_name # None /\ outputs_path # None
    THEN ConvertPath(PathJoin3(outputs_path, exp_name, ShardName(process_index)).value)
    ELSE None

IsGcs(path) == StartsWith(path, "gcs://")

\* variant: the directory is created without asking whether it exists
NeedMakedirs_NoExistsCheck(path, existing) == ~IsGcs(path)

NeedMakedirs(path, existing) == (~IsGcs(path)) /\ path \notin existing

\* os.makedirs(path) without exist_ok
Makedirs(path, existing) ==
    IF path \in existing
    THEN [raised |-> "FileExistsError", value |-> existing]
    ELSE Ok(existing \cup {path})

\* variant: the mesh topology is dumped on both paths
WritesMesh_Always(do_pjit) == TRUE

WritesMesh(do_pjit) == do_pjit

(***************************************************************************)
(* The file system: local directories and files, and gcs objects.          *)
(***************************************************************************)
PreviousConfig == [kind |-> "script", writer |-> "previous run"]

\* open(path, 'w') through utils.gcs_manager.open: a local file can only be
\* created in a directory that exists; a gcs object has no such requirement.
OpenForWrite(dir) ==
    IF IsGcs(dir) \/ dir \in dirs THEN "none" ELSE "FileNotFoundError"

WriteFile(path, content) ==
    /\ files' = [q \in (DOMAIN files) \cup {path} |->
                    IF q = path THEN content ELSE files[q]]
    /\ written' = written \cup {path}

Abort(exception) ==
    /\ pc' = "aborted"
    /\ error' = exception

(***************************************************************************)
(* Initial state: main is entered with some arguments, in some process of  *)
(* the job, on a file system that may hold the output directory of an      *)
(* earlier run of the same experiment.                                     *)
(***************************************************************************)
Init ==
    /\ input_args \in InputArgs
    /\ env \in Environments
    /\ \E resumed \in BOOLEAN :
        LET target == SaveDirOf(input_args.exp_name, input_args.outputs_path,
                                env.process_index)
        IN  /\ resumed => target # None
            /\ dirs = IF resumed /\ ~IsGcs(target) THEN {target} ELSE {}
            /\ files = IF resumed
                       THEN [q \in {PathJoin2(target, "config.py").value} |-> PreviousConfig]
                       ELSE <<>>
    /\ created = {}
    /\ written = {}
    /\ pc = "start"
    /\ error = "none"
    /\ loader = [called |-> FALSE, checkpoint_path |-> None]
    /\ params = "unset"
    /\ mesh = NoMesh
    /\ param_spec = "unset"
    /\ optim_state = [kind |-> "unset", params |-> "unset"]
    /\ optim_state_spec = "unset"
    /\ trainer = NotCalled
    /\ inference = NotCalled
    /\ save_dir = None
    /\ train_loop = [called |-> FALSE, save_dir |-> None, scope |-> "unset",
                     mesh_devices |-> <<>>, rng |-> PRNGKey(0)]
    /\ evals = <<>>

(***************************************************************************)
(* The steps of main.                                                      *)
(***************************************************************************)
\* tokenizer, raw data and the two datasets; a malformed data file raises
LoadData ==
    /\ pc = "start"
    /\ \E well_formed \in BOOLEAN :
        IF well_formed
        THEN pc' = "load_model" /\ UNCHANGED error
        ELSE Abort("KeyError")
    /\ UNCHANGED <<inputs, fs, loader, sharding, factories, save_dir, train_loop, evals>>

LoadModel ==
    /\ pc = "load_model"
    /\ LET arg == CheckpointArg(input_args.checkpoint_path,
                                input_args.checkpoint_is_sharded,
                                env.process_index)
       IN  IF arg.raised # "none"
           THEN /\ Abort(arg.raised)
                /\ UNCHANGED <<loader, params>>
           ELSE /\ loader' = [called |-> TRUE, checkpoint_path |-> arg.value]
                /\ params' = "loaded params"
                /\ pc' = "mesh"
                /\ UNCHANGED error
    /\ UNCHANGED <<inputs, fs, mesh, param_spec, optim_state, optim_state_spec,
                   factories, save_dir, train_loop, evals>>

BuildMesh ==
    /\ pc = "mesh"
    /\ LET m == MeshOf(input_args.do_pjit, env.devices,
                       input_args.data_p_shape, input_args.model_p_shape)
       IN  IF m.raised # "none"
           THEN /\ Abort(m.raised)
                /\ UNCHANGED mesh
           ELSE /\ mesh' = m.value
                /\ pc' = "shard"
                /\ UNCHANGED error
    /\ UNCHANGED <<inputs, fs, loader, params, param_spec, optim_state,
                   optim_state_spec, factories, save_dir, train_loop, evals>>

ShardParams ==
    /\ pc = "shard"
    /\ LET r == ShardResult(input_args.do_pjit, params)
       IN  /\ params' = r.params
           /\ param_spec' = r.param_spec
           /\ optim_state' = r.optim_state
           /\ optim_state_spec' = r.optim_state_spec
    /\ pc' = "trainer"
    /\ UNCHANGED <<inputs, fs, error, loader, mesh, factories, save_dir,
                   train_loop, evals>>

LoadTrainer ==
    /\ pc = "trainer"
    /\ trainer' = TrainerArgs(params, param_spec, optim_state, optim_state_spec,
                              input_args.do_pjit)
    /\ pc' = "inference"
    /\ UNCHANGED <<inputs, fs, error, loader, sharding, inference, save_dir,
                   train_loop, evals>>

LoadInference ==
    /\ pc = "inference"
    /\ inference' = InferenceArgs(params, param_spec, input_args.do_pjit)
    /\ pc' = "save_dir"
    /\ UNCHANGED <<inputs, fs, error, loader, sharding, trainer, save_dir,
                   train_loop, evals>>

\* save_dir and the creation of the output directory
PersistDir ==
    /\ pc = "save_dir"
    /\ LET target == SaveDirOf(input_args.exp_name, input_args.outputs_path,
                               env.process_index)
       IN  /\ save_dir' = target
           /\ IF target = None
              THEN /\ pc' = "train"
                   /\ UNCHANGED <<dirs, created, error>>
              ELSE IF NeedMakedirs(target, dirs)
              THEN \E io_ok \in BOOLEAN :
                     LET made == Makedirs(target, dirs)
                     IN  IF io_ok /\ made.raised = "none"
                         THEN /\ dirs' = made.value
                              /\ created' = created \cup {target}
                              /\ pc' = "config"
                              /\ UNCHANGED error
                         ELSE /\ Abort(IF io_ok THEN made.raised ELSE "OSError")
                              /\ UNCHANGED <<dirs, created>>
              ELSE /\ pc' = "config"
                   /\ UNCHANGED <<dirs, created, error>>
    /\ UNCHANGED <<inputs, files, written, loader, sharding, factories,
                   train_loop, evals>>

\* copy training script to outputs
PersistConfig ==
    /\ pc = "config"
    /\ \E io_ok \in BOOLEAN :
        LET opened == OpenForWrite(save_dir)
        IN  IF io_ok /\ opened = "none"
            THEN /\ WriteFile(PathJoin2(save_dir, "config.py").value,
                              [kind |-> "script", writer |-> "this run"])
                 /\ pc' = "input_args"
                 /\ UNCHANGED error
            ELSE /\ Abort(IF io_ok THEN opened ELSE "OSError")
                 /\ UNCHANGED <<files, written>>
    /\ UNCHANGED <<inputs, dirs, created, loader, sharding, factories, save_dir,
                   train_loop, evals>>

\* variant: a failure to dump the arguments is swallowed
PersistArgs_Swallow ==
    /\ pc = "input_args"
    /\ \E io_ok \in BOOLEAN :
        LET opened == OpenForWrite(save_dir)
        IN  IF io_ok /\ opened = "none"
            THEN WriteFile(PathJoin2(save_dir, "input_args.pkl").value,
                           [kind |-> "input_args", writer |-> "this run"])
            ELSE UNCHANGED <<files, written>>
    /\ pc' = "system_mesh"
    /\ UNCHANGED <<inputs, dirs, created, error, loader, sharding, factories,
                   save_dir, train_loop, evals>>

PersistArgs ==
    /\ pc = "input_args"
    /\ \E io_ok \in BOOLEAN :
        LET opened == OpenForWrite(save_dir)
        IN  IF io_ok /\ opened = "none"
            THEN /\ WriteFile(PathJoin2(save_dir, "input_args.pkl").value,
                              [kind |-> "input_args", writer |-> "this run"])
                 /\ pc' = "system_mesh"
                 /\ UNCHANGED error
            ELSE /\ Abort(IF io_ok THEN opened ELSE "OSError")
                 /\ UNCHANGED <<files, written>>
    /\ UNCHANGED <<inputs, dirs, created, loader, sharding, factories, save_dir,
                   train_loop, evals>>

\* save info about mesh devices
PersistMesh ==
    /\ pc = "system_mesh"
    /\ IF WritesMesh(input_args.do_pjit)
       THEN \E io_ok \in BOOLEAN :
              LET opened == OpenForWrite(save_dir)
              IN  IF io_ok /\ opened = "none"
                  THEN /\ WriteFile(PathJoin2(save_dir, "system_mesh.pkl").value,
                                    [kind |-> "system_mesh", writer |-> "this run"])
                       /\ pc' = "train"
                       /\ UNCHANGED error
                  ELSE /\ Abort(IF io_ok THEN opened ELSE "OSError")
                       /\ UNCHANGED <<files, written>>
       ELSE /\ pc' = "train"
            /\ UNCHANGED <<files, written, error>>
    /\ UNCHANGED <<inputs, dirs, created, loader, sharding, factories, save_dir,
                   train_loop, evals>>

\* with mesh: train_loop(...)
CallTrainLoop ==
    /\ pc = "train"
    /\ train_loop' = [called |-> TRUE, save_dir |-> save_dir, scope |-> mesh.kind,
                      mesh_devices |-> mesh.devices, rng |-> PRNGKey(1)]
    /\ pc' = "loop"
    /\ UNCHANGED <<inputs, fs, error, loader, sharding, factories, save_dir, evals>>

\* variant: the base key is drawn from the number of evaluations so far
Evaluator_Counter ==
    /\ pc = "loop"
    /\ Len(evals) < MaxEvals
    /\ evals' = Append(evals, EvaluatorRngs(PRNGKey(Len(evals))))
    /\ UNCHANGED <<inputs, fs, pc, error, loader, sharding, factories, save_dir,
                   train_loop>>

\* one evaluation cycle of train_loop calls the evaluator closure
Evaluator ==
    /\ pc = "loop"
    /\ Len(evals) < MaxEvals
    /\ evals' = Append(evals, EvaluatorKeys)
    /\ UNCHANGED <<inputs, fs, pc, error, loader, sharding, factories, save_dir,
                   train_loop>>

\* train_loop returns and the mesh scope is left
TrainLoopReturn ==
    /\ pc = "loop"
    /\ pc' = "done"
    /\ UNCHANGED <<inputs, fs, error, loader, sharding, factories, save_dir,
                   train_loop, evals>>

Next ==
    \/ LoadData
    \/ LoadModel
    \/ BuildMesh
    \/ ShardParams
    \/ LoadTrainer
    \/ LoadInference
    \/ PersistDir
    \/ PersistConfig
    \/ PersistArgs
    \/ PersistMesh
    \/ CallTrainLoop
    \/ Evaluator
    \/ TrainLoopReturn

Spec == Init /\ [][Next]_vars

(***************************************************************************)
(* Notions the properties below are stated with.                           *)
(***************************************************************************)
Supplied == input_args.exp_name # None /\ input_args.outputs_path # None

\* <outputs_path>/<exp_name>/shard_<process index>, written out literally
RunDirectory ==
    input_args.outputs_path \o "/" \o input_args.exp_name \o "/shard_"
        \o ToString(env.process_index)

ExpectedArtifacts ==
    {RunDirectory \o "/config.py", RunDirectory \o "/input_args.pkl"}
        \cup (IF input_args.do_pjit THEN {RunDirectory \o "/system_mesh.pkl"} ELSE {})

Returned == pc \in {"done", "aborted"}

AfterDirectoryStep == pc \in {"config", "input_args", "system_mesh", "train", "loop", "done"}

PersistenceErrors == {"OSError", "FileExistsError", "FileNotFoundError"}

DeviceCount == Len(env.devices)

ShapeProduct == input_args.data_p_shape * input_args.model_p_shape

MeshAttempted == mesh.kind # "unset" \/ error = "ValueError"

MeshSlots ==
    UNION {{<<i, j>> : j \in DOMAIN mesh.devices[i]} : i \in DOMAIN mesh.devices}

MeshHoldsEveryDeviceOnce ==
    /\ mesh.kind = "Mesh"
    /\ Cardinality(MeshSlots) = DeviceCount
    /\ \A k \in DOMAIN env.devices :
          Cardinality({t \in MeshSlots : mesh.devices[t[1]][t[2]] = env.devices[k]}) = 1

MeshFailed ==
    /\ error = "ValueError"
    /\ pc = "aborted"
    /\ mesh.kind = "unset"
    /\ param_spec = "unset"
    /\ ~trainer.called
    /\ ~train_loop.called

C2_DirectoryAsClaimed ==
    /\ (Supplied /\ AfterDirectoryStep) => save_dir \in dirs
    /\ error # "FileExistsError"

(***************************************************************************)
(* C2, amended.  With exp_name and outputs_path supplied and a local       *)
(* output path (one not starting with gcs://), once the directory step is  *)
(* over the output directory exists; the step creates it if it does not    *)
(* exist and otherwise leaves directories and files as they were, raising  *)
(* no error.  For a gcs:// output path the step creates no directory.      *)
(***************************************************************************)
C2_LocalDirectory ==
    /\ [](/\ (Supplied /\ AfterDirectoryStep) =>
                IF IsGcs(save_dir)
                THEN dirs = {} /\ created = {}
                ELSE save_dir \in dirs
          /\ error # "FileExistsError")
    /\ [][pc = "save_dir" /\ Supplied =>
            LET target == RunDirectory
            IN  IF target \in dirs \/ IsGcs(target)
                THEN pc' = "config" /\ dirs' = dirs /\ files' = files /\ created' = created
                ELSE \/ pc' = "config" /\ dirs' = dirs \cup {target} /\ files' = files
                     \/ pc' = "aborted" /\ error' = "OSError" /\ dirs' = dirs]_vars

C2_Witness ==
    /\ pc = "config"
    /\ ~IsGcs(save_dir)
    /\ save_dir \in dirs
    /\ created = {}
    /\ DOMAIN files # {}

(***************************************************************************)
(* C3.  train_loop is invoked only after every enabled persistence step    *)
(* (directory, config.py, input_args.pkl, system_mesh.pkl) has completed;  *)
(* a failed persistence step aborts main and train_loop is never invoked.  *)
(***************************************************************************)
C3_PersistBeforeTrain ==
    /\ (train_loop.called /\ Supplied) =>
          /\ IsGcs(save_dir) \/ save_dir \in dirs
          /\ \A name \in {"config.py", "input_args.pkl"} :
                /\ PathJoin2(save_dir, name).value \in written
                /\ files[PathJoin2(save_dir, name).value].writer = "this run"
          /\ input_args.do_pjit =>
                /\ PathJoin2(save_dir, "system_mesh.pkl").value \in written
                /\ files[PathJoin2(save_dir, "system_mesh.pkl").value].writer = "this run"
    /\ error \in PersistenceErrors => (pc = "aborted" /\ ~train_loop.called)

C3_Witness ==
    /\ train_loop.called
    /\ Supplied
    /\ input_args.do_pjit
    /\ ~IsGcs(save_dir)
    /\ save_dir \in created

(***************************************************************************)
(* C4.  As claimed: with do_pjit, once the mesh step has run, a shape      *)
(* whose product equals the device count gives a mesh that holds every     *)
(* device exactly once, and any other shape gives a ValueError after which *)
(* neither sharding nor train_loop is reached.                             *)
(***************************************************************************)
C4_MeshAsClaimed ==
    (input_args.do_pjit /\ MeshAttempted) =>
        IF ShapeProduct = DeviceCount THEN MeshHoldsEveryDeviceOnce ELSE MeshFailed

(***************************************************************************)
(* C4, amended.  The same, for shapes of non-negative sizes: with do_pjit  *)
(* and data_p_shape >= 0 and model_p_shape >= 0, a product equal to the    *)
(* device count gives a data_p_shape x model_p_shape mesh that holds every *)
(* device exactly once, and any other product gives a ValueError after     *)
(* which neither sharding nor train_loop is reached.                       *)
(***************************************************************************)
C4_MeshNonNegativeShape ==
    (/\ input_args.do_pjit
     /\ MeshAttempted
     /\ input_args.data_p_shape >= 0
     /\ input_args.model_p_shape >= 0) =>
        IF ShapeProduct = DeviceCount
        THEN /\ MeshHoldsEveryDeviceOnce
             /\ Len(mesh.devices) = input_args.data_p_shape
             /\ \A i \in DOMAIN mesh.devices :
                   Len(mesh.devices[i]) = input_args.model_p_shape
        ELSE MeshFailed

C4_Witness ==
    /\ input_args.do_pjit
    /\ mesh.kind = "Mesh"
    /\ DeviceCount = 2
    /\ input_args.data_p_shape = 2
    /\ input_args.model_p_shape = 1
    /\ train_loop.called

(***************************************************************************)
(* C5.  With do_pjit false, whatever the shape: no mesh is built and no    *)
(* reshape error occurs, the scope around train_loop is the null context,  *)
(* the optimizer state is optim.init of the unsharded parameters, and the  *)
(* trainer gets param_spec None and optim_state_spec None.                 *)
(***************************************************************************)
C5_NoMeshWithoutPjit ==
    ~input_args.do_pjit =>
        /\ mesh.kind \in {"unset", "nullcontext"}
        /\ error # "ValueError"
        /\ trainer.called =>
              /\ trainer.param_spec = None
              /\ trainer.optim_state_spec = None
              /\ trainer.optim_state = [kind |-> "optim.init", params |-> "loaded params"]
              /\ trainer.params = "loaded params"
        /\ train_loop.called =>
              /\ train_loop.scope = "nullcontext"
              /\ train_loop.mesh_devices = <<>>

C5_Witness ==
    /\ ~input_args.do_pjit
    /\ ShapeProduct # DeviceCount
    /\ trainer.called
    /\ train_loop.called

(***************************************************************************)
(* C6.  The trainer factory and the inference factory get the same params, *)
(* the same param_spec and the same do_pjit, namely the ones the sharding  *)
(* step produced.                                                          *)
(***************************************************************************)
C6_SameSpecForTrainerAndInference ==
    inference.called =>
        /\ trainer.called
        /\ inference.params = trainer.params
        /\ inference.param_spec = trainer.param_spec
        /\ inference.do_pjit = trainer.do_pjit
        /\ inference.params = params
        /\ inference.param_spec = param_spec
        /\ inference.do_pjit = input_args.do_pjit

C6_Witness ==
    /\ inference.called
    /\ input_args.do_pjit
    /\ inference.param_spec = "param_spec"

(***************************************************************************)
(* C7.  With checkpoint_is_sharded, process i loads the model from         *)
(* <checkpoint_path>/shard_i, a path no other process of the job computes; *)
(* without it, the loader gets checkpoint_path unchanged.                  *)
(***************************************************************************)
C7_ShardedCheckpointPath ==
    loader.called =>
        IF input_args.checkpoint_is_sharded
        THEN /\ loader.checkpoint_path =
                    input_args.checkpoint_path \o "/shard_" \o ToString(env.process_index)
             /\ \A j \in 0..(env.process_count - 1) :
                    j # env.process_index =>
                        CheckpointArg(input_args.checkpoint_path, TRUE, j).value
                            # loader.checkpoint_path
        ELSE loader.checkpoint_path = input_args.checkpoint_path

C7_Witness ==
    /\ loader.called
    /\ input_args.checkpoint_is_sharded
    /\ env.process_count = 2
    /\ env.process_index = 1
    /\ loader.checkpoint_path = "ckpts/t5/shard_1"

(***************************************************************************)
(* C8.  In every evaluator invocation the key given to eval_loss and the   *)
(* key given to generate_language differ from each other and from the base *)
(* key they are split from.                                                *)
(***************************************************************************)
C8_DistinctSeeds ==
    \A i \in DOMAIN evals :
        /\ evals[i].loss # evals[i].generation
        /\ evals[i].loss # evals[i].base
        /\ evals[i].generation # evals[i].base

C8_Witness ==
    /\ Len(evals) >= 1
    /\ evals[1].base = PRNGKey(0)
    /\ evals[1].loss = << <<41486, 16513>>, <<19423, 44591>> >>
    /\ evals[1].generation = << <<19507, 1719>>, <<33299, 45693>> >>

(***************************************************************************)
(* C9.  As claimed: successive evaluator invocations of one run use        *)
(* different base keys, loss keys and generation keys.                     *)
(***************************************************************************)
C9_FreshSeedAsClaimed ==
    \A i \in DOMAIN evals :
        (i + 1) \in DOMAIN evals =>
            /\ evals[i + 1].base # evals[i].base
            /\ evals[i + 1].loss # evals[i].loss
            /\ evals[i + 1].generation # evals[i].generation

(***************************************************************************)
(* C9, amended.  Every evaluator invocation starts from the constant key   *)
(* PRNGKey(0): any two invocations of one run use the same base key, the   *)
(* same loss key and the same generation key.                              *)
(***************************************************************************)
C9_SameSeedEveryCycle ==
    \A i \in DOMAIN evals :
        /\ evals[i].base = <<WordOf(0), WordOf(0)>>
        /\ \A j \in DOMAIN evals : evals[i] = evals[j]

C9_Witness == Len(evals) >= 2

(***************************************************************************)
(* C10.  As claimed: with checkpoint_path None, computing the checkpoint   *)
(* location raises nothing and the loader is called with checkpoint_path   *)
(* None, whatever checkpoint_is_sharded is.                                *)
(***************************************************************************)
C10_UnsetCheckpointAsClaimed ==
    input_args.checkpoint_path = None =>
        /\ error # "TypeError"
        /\ pc \notin {"start", "load_model", "aborted"} =>
              loader.called /\ loader.checkpoint_path = None

====
